---- MODULE Spec2Model ----
(***************************************************************************)
(* Model of the NutriKazBot message scheduling and dispatch engine:        *)
(*   - the scheduler loop        src/run.py                scheduled_broadcast          *)
(*   - the sweep                 src/app/database/crud_admin.py send_scheduled_broadcasts *)
(*   - the immediate send        src/app/database/crud_admin.py send_broadcast_now      *)
(*   - the stores                src/app/database/models.py                             *)
(* The persisted tables are ms (message_schedule), bc (broadcast) and user. *)
(* Writes of the scheduler's session stay in its transaction (txSent,       *)
(* txFinal) until session.commit(); a crash discards them.                  *)
(* Specifications:                                                          *)
(*   Spec, FairSpec  scheduler, handlers, crashes and store errors          *)
(*   OrderSpec       the scheduler over entries and jobs with several due times *)
(*   StageSpec       src/app/handlers/common.py get_current_stage           *)
(*   HandlerSpec     the lead-magnet enrollment (lead_magnet_from_menu,     *)
(*                   schedule_lead_magnet_messages)                         *)
(*   CreateSpec      src/app/handlers/admin.py create_broadcast_time on the *)
(*                   text of the administrator's message                    *)
(*   DispatchSpec    the delivery primitive each path calls for a payload   *)
(*   SegmentSpec     broadcasts and sweeps with delete_lead_source          *)
(*   StartSpec       src/app/handlers/common.py cmd_start and add_user      *)
(*   ShutdownSpec    the scheduler with the cancellation of its task        *)
(*   HangSpec        the scheduler with a delivery call that never returns  *)
(***************************************************************************)
EXTENDS Integers, FiniteSets, Sequences, TLC

\* ------------------------------------------------------------------ bounds
MaxTime == 1
MaxEntries == 2
MaxJobs == 2
\* crashes and aborted sweeps of one run, counted together
MaxFaults == 1
\* last day of the calendar the stage resolver is called on
MaxDay == 22
\* enrollments of the contact in one run, and the latest minute of an enrollment
MaxEnrollments == 2
MaxEnrollTime == 1
\* latest due time in the runs that look at the order of a sweep
MaxOrderTime == 2
\* delivery calls of one run of the dispatch specification
MaxCalls == 2
\* external ids that register, and entries the start command may store
MaxContacts == 3
MaxStartEntries == 4

\* ------------------------------------------------------------- constants
NULL == 0 - 1
Users == {1, 2}
LeadSources == {1, 2}
\* inputs of the handlers: the contact of a new entry, the segment filter of a new job
EntryUsers == {1}
Targets == {NULL, 1}
Outcomes == {"ok", "blocked", "error"}
Times == 0 .. MaxTime
\* due times given to new entries and jobs; the clock starts at 0
DueTimes == 1 .. MaxTime

\* get_current_stage: the window bounds, in days counted from 2025-10-28 00:00
\* Asia/Almaty (29 October = 1, 7 November = 10, 13 November = 16,
\* 14 November = 17, 18 November = 21)
Stage1Start == 1
Stage1End == 10
Stage2Start == 10
Stage2End == 16
Stage3Start == 17
Stage3End == 21
Instants == 0 .. MaxDay

\* schedule_lead_magnet_messages: timedelta(minutes=1) and timedelta(days=2), in minutes
OneMinute == 1
TwoDays == 2880
\* the contact that enrolls, and the id of the lead source "lead_magnet"
\* names of the segments the store starts with, by id
LeadSourceNames == <<"promo", "lead_magnet">>
Contact == 1
LeadMagnetId == 2

\* message.text given to create_broadcast_time: the layout of the text, its month
\* and hour fields, and the time it denotes when it can be parsed
Texts ==
    {[layout |-> "Y-m-d H:M", month |-> 11, hour |-> 12, at |-> t] : t \in DueTimes}
    \cup {[layout |-> "d.m.Y H:M", month |-> 11, hour |-> 12, at |-> 1],
          [layout |-> "Y-m-d H:M", month |-> 13, hour |-> 12, at |-> 1],
          [layout |-> "Y-m-d H:M", month |-> 11, hour |-> 24, at |-> 1],
          [layout |-> "blank", month |-> 0, hour |-> 0, at |-> 0]}

VARIABLES
    clock,      \* wall clock (Asia/Almaty), in scheduler periods
    user,       \* table "user": user_id -> lead_source_id (NULL = no segment)
    ms,         \* table message_schedule: id -> [user_id, send_time, sent]
    bc,         \* table broadcast: id -> [scheduled_at, status, is_sent, sent_count, target_lead_id]
    pc,         \* position of the scheduler task
    now,        \* send_scheduled_broadcasts: local now
    rows,       \* send_scheduled_broadcasts: ids fetched by query_personal
    todo,       \* rows the personal loop has not visited yet
    txSent,     \* uncommitted "UPDATE message_schedule SET sent = true" of the session
    cur,        \* send_scheduled_broadcasts: id of the selected broadcast (NULL = none)
    usersLeft,  \* recipients of the broadcast loop not visited yet
    total,      \* send_scheduled_broadcasts: local total
    txFinal,    \* the final UPDATE broadcast was executed and is not committed yet
    hpc,        \* position of the administrator handler create_broadcast_time
    hId,        \* send_broadcast_now: broadcast_id
    hUsers,     \* send_broadcast_now: users not visited yet
    hCount,     \* send_broadcast_now: local sent_count
    crashes,    \* number of process crashes so far
    storeErrors,\* number of store operations of the sweep that raised so far
    att,        \* history: delivery attempts per personal entry
    failedNow,  \* history: entries whose attempt in the running tick failed
    batt,       \* history: delivery attempts per broadcast job and contact
    nBlocked,   \* history: "blocked" failures in the running scheduler broadcast loop
    nError,     \* history: other failures in the running scheduler broadcast loop
    hBlocked,   \* history: "blocked" failures in the running send_broadcast_now loop
    hError,     \* history: other failures in the running send_broadcast_now loop
    dueAtTick,  \* history: entries that were due and unsent when the last tick started
    idle,       \* history: the running tick has found no due work so far
    crashedIter,\* history: jobs whose recipient iteration was cut by a crash
    cutByError, \* history: jobs whose sweep a store error aborted after status = 'sending'
    stNow,      \* get_current_stage: now of the last call, in days
    stStage,    \* get_current_stage: value the last call returned
    stPrevNow,  \* history: now of the call before the last
    stPrevStage,\* history: value the call before the last returned
    eClock,     \* wall clock of the enrollment handler, in minutes
    ePc,        \* position of lead_magnet_from_menu
    eNow,       \* schedule_lead_magnet_messages: local now
    eIdx,       \* schedule_lead_magnet_messages: position in "for ... in reminders"
    eRaised,    \* an exception left schedule_lead_magnet_messages
    eAnswer,    \* text the handler answered the contact with
    eCount,     \* number of enrollments started
    eCreated,   \* history: ids of the entries the running enrollment has stored
    eFailed,    \* history: an add_message_schedule of the running enrollment raised
    lastText,   \* history: message.text of the last create_broadcast_time
    dLog,       \* delivery calls made so far: path, payload kind, primitive called
    ls,         \* the lead_source table: name of every stored segment, by id
    orphaned,   \* history: pending jobs, not yet in a sweep, whose segment was deleted
    contact,    \* the rows of the user table: external id and segment of each row, by row id
    op,         \* history: the last operation on the contacts and segments
    sUid,       \* history: external id the last add_user or start was called with
    sLabel,     \* history: argument of the last start command
    ret         \* history: row id of the contact the last add_user returned

dbVars == <<user, ms, bc>>
schedVars == <<pc, now, rows, todo, txSent, cur, usersLeft, total, txFinal>>
handlerVars == <<hpc, hId, hUsers, hCount>>
histVars == <<att, failedNow, batt, nBlocked, nError, hBlocked, hError, dueAtTick, idle,
             crashedIter, cutByError>>
stageVars == <<stNow, stStage, stPrevNow, stPrevStage>>
enrollVars == <<eClock, ePc, eNow, eIdx, eRaised, eAnswer, eCount, eCreated, eFailed>>
dispatchVars == <<dLog>>
segmentVars == <<ls, orphaned>>
startVars == <<contact, op, sUid, sLabel, ret>>
restVars == <<dispatchVars, segmentVars, startVars>>
otherVars == <<stageVars, enrollVars, restVars>>
mainVars == <<clock, dbVars, schedVars, handlerVars, crashes, storeErrors, histVars>>
vars == <<clock, user, ms, bc, pc, now, rows, todo, txSent, cur, usersLeft, total,
          txFinal, hpc, hId, hUsers, hCount, crashes, att, failedNow, batt, nBlocked,
          nError, hBlocked, hError, dueAtTick, idle, crashedIter, storeErrors,
          cutByError, stageVars, enrollVars, lastText, restVars>>

\* ------------------------------------------------------------ SQL helpers
\* a comparison with NULL is not true
SqlLe(a, b) == a # NULL /\ b # NULL /\ a <= b

\* variants of the queries and updates with one condition or statement changed
DuePersonalStrict(tbl, t) ==
    {id \in DOMAIN tbl : tbl[id].send_time # NULL /\ tbl[id].send_time < t
                         /\ tbl[id].sent = FALSE}

DuePersonalAnySent(tbl, t) == {id \in DOMAIN tbl : SqlLe(tbl[id].send_time, t)}

DueBroadcastStrict(tbl, t) ==
    {id \in DOMAIN tbl : /\ tbl[id].scheduled_at # NULL /\ tbl[id].scheduled_at < t
                         /\ tbl[id].status \in {"NULL", "pending"}
                         /\ tbl[id].is_sent = FALSE}

DueBroadcastNullTime(tbl, t) ==
    {id \in DOMAIN tbl : /\ (tbl[id].scheduled_at = NULL \/ tbl[id].scheduled_at <= t)
                         /\ tbl[id].status \in {"NULL", "pending"}
                         /\ tbl[id].is_sent = FALSE}

DueBroadcastNoStatus(tbl, t) == {id \in DOMAIN tbl : SqlLe(tbl[id].scheduled_at, t)}

DueBroadcastResume(tbl, t) ==
    {id \in DOMAIN tbl : /\ SqlLe(tbl[id].scheduled_at, t)
                         /\ tbl[id].status \in {"NULL", "pending", "sending"}
                         /\ tbl[id].is_sent = FALSE}

MarkOnSuccess(tx, id, o) == IF o = "ok" THEN tx \cup {id} ELSE tx

CountNotError(n, o) == IF o \in {"ok", "blocked"} THEN n + 1 ELSE n

CommitSentNone(tbl, tx) == tbl

FinalizeBroadcastNoWhere(tbl, id, n) ==
    [j \in DOMAIN tbl |->
        [tbl[j] EXCEPT !.is_sent = TRUE, !.status = "sent", !.sent_count = n]]

TransitionSendingNone(tbl, id) == tbl

TransitionSendingNoWhere(tbl, id) ==
    [j \in DOMAIN tbl |-> [tbl[j] EXCEPT !.status = "sending"]]

PersonalLoopDoneEarly(left) == TRUE

BroadcastLoopDoneEarly(left) == Cardinality(left) <= 1

RestAfterAbort(left, x, o) == IF o = "error" THEN {} ELSE left \ {x}

LoopDiesOnError == "dead"

get_current_stageClosedEnd(t) ==
    IF Stage1Start <= t /\ t <= Stage1End THEN "stage1"
    ELSE IF Stage2Start <= t /\ t <= Stage2End THEN "stage2"
    ELSE IF Stage3Start <= t /\ t <= Stage3End THEN "stage3"
    ELSE "None"

get_current_stageOpenStart(t) ==
    IF Stage1Start < t /\ t < Stage1End THEN "stage1"
    ELSE IF Stage2Start < t /\ t < Stage2End THEN "stage2"
    ELSE IF Stage3Start < t /\ t < Stage3End THEN "stage3"
    ELSE "None"

remindersSameTime(t) ==
    <<[at |-> t + OneMinute, key |-> "welcome"], [at |-> t + OneMinute, key |-> "reminder"]>>

StrictlyFutureByMinute(at, t) == at > t + OneMinute

assign_user_to_lead_sourceInsert(utbl, user_id, lead_source_id) ==
    [u \in DOMAIN utbl \cup {0} |-> IF u = 0 THEN lead_source_id ELSE utbl[u]]

FinalizeBroadcastStatusOnly(tbl, id, n) ==
    [tbl EXCEPT ![id] = [@ EXCEPT !.status = "sent", !.sent_count = n]]

DueBroadcastAnyUnsent(tbl, t) ==
    {id \in DOMAIN tbl : SqlLe(tbl[id].scheduled_at, t) /\ tbl[id].is_sent = FALSE}

DueBroadcastPlainLe(tbl, t) ==
    {id \in DOMAIN tbl : /\ tbl[id].scheduled_at <= t
                         /\ tbl[id].status \in {"NULL", "pending"}
                         /\ tbl[id].is_sent = FALSE}

SetNullBroadcastsKeep(tbl, lead_id) == tbl

add_userAlwaysInsert(tbl, user_id, lead_source_id) ==
    Append(tbl, [user_id |-> user_id, lead_source_id |-> lead_source_id])

Lower(label) == IF label = "Lead_Magnet" THEN "lead_magnet" ELSE label

DeepLinkUnchecked(label) == IF label # "" THEN Lower(label) ELSE "None"

\* query_personal: WHERE ms.send_time <= :now AND ms.sent = false
DuePersonal(tbl, t) ==
    {id \in DOMAIN tbl : SqlLe(tbl[id].send_time, t) /\ tbl[id].sent = FALSE}

\* query_broadcast: WHERE scheduled_at <= :now AND (status IS NULL OR status = 'pending')
\*                  AND is_sent = false
DueBroadcast(tbl, t) ==
    {id \in DOMAIN tbl : /\ SqlLe(tbl[id].scheduled_at, t)
                         /\ tbl[id].status \in {"NULL", "pending"}
                         /\ tbl[id].is_sent = FALSE}

\* get_all_users
get_all_users(utbl) == DOMAIN utbl

\* get_users_by_lead_source: User JOIN LeadSource WHERE LeadSource.id = lead_source_id
get_users_by_lead_source(utbl, lead_source_id) ==
    {u \in DOMAIN utbl : utbl[u] # NULL /\ utbl[u] \in LeadSources /\ utbl[u] = lead_source_id}

\* users_query of the scheduler: SELECT user_id FROM "user" WHERE user_id IS NOT NULL
SchedulerRecipients(utbl, job) == {u \in DOMAIN utbl : u # NULL}

\* send_broadcast_now: users = by lead source if target_lead_id else all
ImmediateRecipients(utbl, job) ==
    IF job.target_lead_id # NULL /\ job.target_lead_id # 0
    THEN get_users_by_lead_source(utbl, job.target_lead_id)
    ELSE get_all_users(utbl)

\* the personal loop: the UPDATE after the try/except runs for every outcome
MarkAfterAttempt(tx, id, o) == tx \cup {id}

\* the broadcast loops: total += 1 is the last statement of the try block
CountSuccess(n, o) == IF o = "ok" THEN n + 1 ELSE n

\* session.commit() applied to message_schedule
CommitSent(tbl, tx) ==
    [id \in DOMAIN tbl |-> IF id \in tx THEN [tbl[id] EXCEPT !.sent = TRUE] ELSE tbl[id]]

\* the final UPDATE broadcast SET is_sent = true, status = 'sent', sent_count = :total
FinalizeBroadcast(tbl, id, n) ==
    [tbl EXCEPT ![id] = [@ EXCEPT !.is_sent = TRUE, !.status = "sent", !.sent_count = n]]

\* "for row in rows" has run out: the code below the personal loop is reached
PersonalLoopDone(left) == left = {}

\* "for user_row in users" has run out: the final UPDATE below the loop is reached
BroadcastLoopDone(left) == left = {}

\* "except Exception as e" inside both loops logs the failure; the loop goes on
\* with the remaining rows whatever the outcome of the attempt was
RestAfter(left, x, o) == left \ {x}

\* scheduled_broadcast: "except Exception as e" logs, sleeps 60 s, and the
\* "while True" loop goes back to waiting for the next minute
LoopAfterError == "sleep"

\* UPDATE broadcast SET status = 'sending' WHERE id = :id
TransitionSending(tbl, id) == [tbl EXCEPT ![id] = [@ EXCEPT !.status = "sending"]]

\* get_current_stage, with now as its argument; a call that matches no branch
\* falls off the end of the function and returns None
get_current_stage(t) ==
    IF Stage1Start <= t /\ t < Stage1End THEN "stage1"
    ELSE IF Stage2Start <= t /\ t < Stage2End THEN "stage2"
    ELSE IF Stage3Start <= t /\ t < Stage3End THEN "stage3"
    ELSE "None"

\* schedule_lead_magnet_messages: the list reminders built from now
reminders(t) ==
    <<[at |-> t + OneMinute, key |-> "welcome"], [at |-> t + TwoDays, key |-> "reminder"]>>

\* schedule_lead_magnet_messages: "if scheduled_at > now"
StrictlyFuture(at, t) == at > t

\* assign_user_to_lead_source: UPDATE user SET lead_source_id WHERE user_id = :user_id
assign_user_to_lead_source(utbl, user_id, lead_source_id) ==
    [u \in DOMAIN utbl |-> IF u = user_id THEN lead_source_id ELSE utbl[u]]

\* datetime.strptime(message.text, "%Y-%m-%d %H:%M"): NULL stands for ValueError
strptime(text) ==
    IF text.layout = "Y-m-d H:M" /\ text.month \in 1 .. 12 /\ text.hour \in 0 .. 23
    THEN text.at
    ELSE NULL

\* create_broadcast_time: scheduled_at stays None for a blank text and after ValueError
ScheduledAt(text) == IF text.layout # "blank" THEN strptime(text) ELSE NULL

\* content_type of the administrator's dialogue, stored as broadcast.file_type
Kinds == {"text", "image", "file", "video"}

\* file_id of a payload: the text dialogue stores none
FileIdOf(kind) == IF kind = "text" THEN "None" ELSE "file_id"

\* send_broadcast_now: the if/elif chain on broadcast.file_type
ImmediateCall(file_type) ==
    CASE file_type = "text" -> "send_message"
      [] file_type = "image" -> "send_photo"
      [] file_type = "file" -> "send_document"
      [] file_type = "video" -> "send_video"
      [] OTHER -> "none"

\* send_scheduled_broadcasts: "if broadcast.file_id and broadcast.file_type"
SchedulerCall(file_id, file_type) ==
    IF file_id # "None" /\ file_type # "None" THEN "send_document" ELSE "send_message"

\* add_message_schedule: message_text is the JSON of text, file_id and file_type
\* when both are given, else the text
PersonalPayload(file_id, file_type) ==
    IF file_id # "None" /\ file_type # "None" THEN "json" ELSE "text"

\* send_scheduled_broadcasts: every row is sent with send_message(text=message_text)
PersonalCall(payload) == "send_message"

\* delete_lead_source: DELETE FROM lead_source WHERE id = :lead_id
delete_lead_source(lstbl, lead_id) == [l \in DOMAIN lstbl \ {lead_id} |-> lstbl[l]]

\* User.lead_source_id: ForeignKey("lead_source.id", ondelete="SET NULL")
SetNullUsers(utbl, lead_id) ==
    [u \in DOMAIN utbl |-> IF utbl[u] = lead_id THEN NULL ELSE utbl[u]]

\* Broadcast.target_lead_id: ForeignKey("lead_source.id", ondelete="SET NULL")
SetNullBroadcasts(tbl, lead_id) ==
    [j \in DOMAIN tbl |->
        IF tbl[j].target_lead_id = lead_id THEN [tbl[j] EXCEPT !.target_lead_id = NULL]
        ELSE tbl[j]]

\* SetNullUsers on the rows of the table
SetNullContacts(tbl, lead_id) ==
    [i \in DOMAIN tbl |->
        IF tbl[i].lead_source_id = lead_id THEN [tbl[i] EXCEPT !.lead_source_id = NULL]
        ELSE tbl[i]]

\* the rows select(User).where(User.user_id == user_id) finds
RowsOf(tbl, user_id) == {i \in DOMAIN tbl : tbl[i].user_id = user_id}

\* add_user: the existing row is returned as it is; else a row is inserted
add_user(tbl, user_id, lead_source_id) ==
    IF RowsOf(tbl, user_id) # {}
    THEN tbl
    ELSE Append(tbl, [user_id |-> user_id, lead_source_id |-> lead_source_id])

\* the row add_user returns: the one it found, or the one it inserted
Returned(tbl, user_id) ==
    IF RowsOf(tbl, user_id) # {}
    THEN CHOOSE i \in RowsOf(tbl, user_id) : \A k \in RowsOf(tbl, user_id) : i <= k
    ELSE Len(tbl) + 1

\* assign_user_to_lead_source on the rows: UPDATE user SET lead_source_id = :id
\* WHERE user_id = :user_id
UpdateLeadSource(tbl, user_id, lead_id) ==
    [i \in DOMAIN tbl |->
        IF tbl[i].user_id = user_id THEN [tbl[i] EXCEPT !.lead_source_id = lead_id]
        ELSE tbl[i]]

\* the user table as the sweeps read it: segment by external id
ByExternalId(tbl) ==
    [u \in {tbl[i].user_id : i \in DOMAIN tbl} |->
        tbl[CHOOSE i \in RowsOf(tbl, u) : \A k \in RowsOf(tbl, u) : i <= k].lead_source_id]

\* cmd_start: valid_sources
ValidSources == {"webinar", "lead_magnet", "challenge"}

\* cmd_start: lead_source_name after "args[0].lower() if args else None" and the
\* validation against valid_sources; "" is a start command without argument
DeepLink(label) ==
    IF label # "" /\ Lower(label) \in ValidSources THEN Lower(label) ELSE "None"

\* get_lead_source_by_name: the id of the segment with that name, or NULL
get_lead_source_by_name(lstbl, name) ==
    IF \E l \in DOMAIN lstbl : lstbl[l] = name
    THEN CHOOSE l \in DOMAIN lstbl : lstbl[l] = name
    ELSE NULL

\* schedule_lead_magnet_messages: the entries stored for the row of the contact
LeadMagnetEntries(row_id, t) ==
    SelectSeq([k \in 1 .. Len(reminders(t)) |->
                  [user_id |-> row_id, send_time |-> reminders(t)[k].at, sent |-> FALSE]],
              LAMBDA e : StrictlyFuture(e.send_time, t))

\* no create_broadcast_time has run yet
NoText == [layout |-> "none", month |-> 0, hour |-> 0, at |-> 0]

\* entries that are past due and unsent in the persisted table at time t
PastDueUnsent(t) == {id \in DOMAIN ms : ms[id].send_time <= t /\ ~ms[id].sent}

\* jobs that are due at time t: scheduled, not after t, pending (or null) and not sent
PastDuePending(t) ==
    {id \in DOMAIN bc : /\ bc[id].scheduled_at # NULL /\ bc[id].scheduled_at <= t
                        /\ bc[id].status \in {"NULL", "pending"} /\ ~bc[id].is_sent}

\* ------------------------------------------------------------------ Init
Init ==
    /\ clock = 0
    /\ user = [u \in Users |-> IF u = 1 THEN 1 ELSE 2]
    /\ ms = <<>>
    /\ bc = <<>>
    /\ pc = "sleep"
    /\ now = 0
    /\ rows = {}
    /\ todo = {}
    /\ txSent = {}
    /\ cur = NULL
    /\ usersLeft = {}
    /\ total = 0
    /\ txFinal = FALSE
    /\ hpc = "idle"
    /\ hId = NULL
    /\ hUsers = {}
    /\ hCount = 0
    /\ crashes = 0
    /\ storeErrors = 0
    /\ cutByError = {}
    /\ att = [id \in 1 .. MaxEntries |-> 0]
    /\ failedNow = {}
    /\ batt = [j \in 1 .. MaxJobs |-> [u \in Users |-> 0]]
    /\ nBlocked = 0
    /\ nError = 0
    /\ hBlocked = 0
    /\ hError = 0
    /\ dueAtTick = {}
    /\ idle = FALSE
    /\ crashedIter = {}
    /\ stNow = 0
    /\ stStage = get_current_stage(0)
    /\ stPrevNow = 0
    /\ stPrevStage = get_current_stage(0)
    /\ eClock = 0
    /\ ePc = "idle"
    /\ eNow = 0
    /\ eIdx = 1
    /\ eRaised = FALSE
    /\ eAnswer = "none"
    /\ eCount = 0
    /\ eCreated = {}
    /\ eFailed = FALSE
    /\ lastText = NoText
    /\ dLog = <<>>
    /\ ls = LeadSourceNames
    /\ orphaned = {}
    /\ contact = <<[user_id |-> 1, lead_source_id |-> 1], [user_id |-> 2, lead_source_id |-> 2]>>
    /\ op = "none"
    /\ sUid = 0
    /\ sLabel = ""
    /\ ret = 0

\* --------------------------------------------------------------- the clock
ClockAdvance ==
    /\ UNCHANGED <<otherVars, lastText>>
    /\ clock < MaxTime
    /\ clock' = clock + 1
    /\ UNCHANGED <<dbVars, schedVars, handlerVars, crashes, storeErrors, histVars>>

\* --------------------------------------------------- add_message_schedule
add_message_schedule(u, t) ==
    /\ UNCHANGED <<otherVars, lastText>>
    /\ Len(ms) < MaxEntries
    /\ ms' = Append(ms, [user_id |-> u, send_time |-> t, sent |-> FALSE])
    /\ UNCHANGED <<clock, user, bc, schedVars, handlerVars, crashes, storeErrors, histVars>>

AddMessageSchedule == \E u \in EntryUsers, t \in DueTimes : add_message_schedule(u, t)

\* ------------------------------------- create_broadcast_time / add_broadcast
add_broadcast(tbl, scheduled_at, lead_source_id) ==
    Append(tbl, [scheduled_at |-> scheduled_at, status |-> "pending", is_sent |-> FALSE,
                 sent_count |-> 0, target_lead_id |-> lead_source_id])

create_broadcast_time(scheduled_at, lead_id) ==
    /\ UNCHANGED otherVars
    /\ hpc = "idle"
    /\ Len(bc) < MaxJobs
    /\ bc' = add_broadcast(bc, scheduled_at, lead_id)
    /\ IF scheduled_at = NULL
       THEN /\ hpc' = "send_now"
            /\ hId' = Len(bc) + 1
            /\ hUsers' = ImmediateRecipients(user, bc'[Len(bc) + 1])
            /\ hCount' = 0
       ELSE UNCHANGED handlerVars
    /\ UNCHANGED <<clock, user, ms, schedVars, crashes, storeErrors, histVars>>

CreateBroadcastTime ==
    \E s \in {NULL} \cup DueTimes, l \in Targets :
        create_broadcast_time(s, l) /\ UNCHANGED lastText

\* send_broadcast_now: one pass of "for user in users"
SendNowStep ==
    /\ UNCHANGED <<otherVars, lastText>>
    /\ hpc = "send_now"
    /\ hUsers # {}
    /\ \E u \in hUsers, o \in Outcomes :
        /\ hUsers' = hUsers \ {u}
        /\ hCount' = CountSuccess(hCount, o)
        /\ batt' = [batt EXCEPT ![hId][u] = @ + 1]
        /\ hBlocked' = IF o = "blocked" THEN hBlocked + 1 ELSE hBlocked
        /\ hError' = IF o = "error" THEN hError + 1 ELSE hError
    /\ UNCHANGED <<clock, dbVars, schedVars, hpc, hId, crashes, storeErrors, att, failedNow, nBlocked,
                   nError, dueAtTick, idle, crashedIter, cutByError>>

\* send_broadcast_now: status, is_sent, sent_count and the commit after the loop
SendNowFinish ==
    /\ UNCHANGED <<otherVars, lastText>>
    /\ hpc = "send_now"
    /\ hUsers = {}
    /\ bc' = FinalizeBroadcast(bc, hId, hCount)
    /\ hpc' = "idle"
    /\ hId' = NULL
    /\ hCount' = 0
    /\ hBlocked' = 0
    /\ hError' = 0
    /\ UNCHANGED <<clock, user, ms, schedVars, hUsers, crashes, storeErrors, att, failedNow, batt,
                   nBlocked, nError, dueAtTick, idle, crashedIter, cutByError>>

\* ------------------------------------------------ send_scheduled_broadcasts
\* scheduled_broadcast wakes up; the sweep reads now and runs query_personal
Tick ==
    /\ UNCHANGED <<otherVars, lastText>>
    /\ pc = "sleep"
    /\ now' = clock
    /\ rows' = DuePersonal(ms, clock)
    /\ todo' = rows'
    /\ pc' = "personal"
    /\ dueAtTick' = PastDueUnsent(clock)
    /\ idle' = (PastDueUnsent(clock) = {})
    /\ UNCHANGED <<clock, dbVars, txSent, cur, usersLeft, total, txFinal, handlerVars,
                   crashes, storeErrors, att, failedNow, batt, nBlocked, nError, hBlocked, hError,
                   crashedIter, cutByError>>

\* one pass of "for row in rows": the attempt, then the UPDATE in the transaction
PersonalStep ==
    /\ UNCHANGED <<otherVars, lastText>>
    /\ pc = "personal"
    /\ todo # {}
    /\ \E id \in todo, o \in Outcomes :
        /\ todo' = RestAfter(todo, id, o)
        /\ att' = [att EXCEPT ![id] = @ + 1]
        /\ failedNow' = IF o = "ok" THEN failedNow ELSE failedNow \cup {id}
        /\ txSent' = MarkAfterAttempt(txSent, id, o)
    /\ UNCHANGED <<clock, dbVars, pc, now, rows, cur, usersLeft, total, txFinal,
                   handlerVars, crashes, storeErrors, batt, nBlocked, nError, hBlocked, hError,
                   dueAtTick, idle, crashedIter, cutByError>>

\* query_broadcast LIMIT 1; if a job is found: status = 'sending', commit, users_query
SelectBroadcast ==
    /\ UNCHANGED <<otherVars, lastText>>
    /\ pc = "personal"
    /\ PersonalLoopDone(todo)
    /\ IF DueBroadcast(bc, now) = {}
       THEN /\ pc' = "commit"
            /\ idle' = (idle /\ PastDuePending(now) = {})
            /\ UNCHANGED <<dbVars, cur, usersLeft, total, txSent>>
       ELSE \E j \in DueBroadcast(bc, now) :
            /\ bc' = TransitionSending(bc, j)
            /\ ms' = CommitSent(ms, txSent)
            /\ txSent' = {}
            /\ cur' = j
            /\ usersLeft' = SchedulerRecipients(user, bc[j])
            /\ total' = 0
            /\ pc' = "iterate"
            /\ idle' = (idle /\ PastDuePending(now) = {})
            /\ UNCHANGED user
    /\ UNCHANGED <<clock, now, rows, todo, txFinal, handlerVars, crashes, storeErrors, att, failedNow,
                   batt, nBlocked, nError, hBlocked, hError, dueAtTick, crashedIter, cutByError>>

\* one pass of "for user_row in users"
IterateStep ==
    /\ UNCHANGED <<otherVars, lastText>>
    /\ pc = "iterate"
    /\ usersLeft # {}
    /\ \E u \in usersLeft, o \in Outcomes :
        /\ usersLeft' = RestAfter(usersLeft, u, o)
        /\ total' = CountSuccess(total, o)
        /\ batt' = [batt EXCEPT ![cur][u] = @ + 1]
        /\ nBlocked' = IF o = "blocked" THEN nBlocked + 1 ELSE nBlocked
        /\ nError' = IF o = "error" THEN nError + 1 ELSE nError
    /\ UNCHANGED <<clock, dbVars, pc, now, rows, todo, txSent, cur, txFinal, handlerVars,
                   crashes, storeErrors, att, failedNow, hBlocked, hError, dueAtTick, idle, crashedIter, cutByError>>

\* the final UPDATE broadcast after the loop, not committed yet
FinalUpdate ==
    /\ UNCHANGED <<otherVars, lastText>>
    /\ pc = "iterate"
    /\ BroadcastLoopDone(usersLeft)
    /\ txFinal' = TRUE
    /\ pc' = "commit"
    /\ UNCHANGED <<clock, dbVars, now, rows, todo, txSent, cur, usersLeft, total,
                   handlerVars, crashes, storeErrors, histVars>>

\* "if rows or broadcast: await session.commit()", then the session is closed
Commit ==
    /\ UNCHANGED <<otherVars, lastText>>
    /\ pc = "commit"
    /\ IF rows # {} \/ cur # NULL
       THEN /\ ms' = CommitSent(ms, txSent)
            /\ bc' = IF txFinal THEN FinalizeBroadcast(bc, cur, total) ELSE bc
       ELSE UNCHANGED <<ms, bc>>
    /\ pc' = "sleep"
    /\ now' = 0
    /\ rows' = {}
    /\ txSent' = {}
    /\ cur' = NULL
    /\ total' = 0
    /\ txFinal' = FALSE
    /\ idle' = FALSE
    /\ dueAtTick' = {}
    /\ failedNow' = {}
    /\ nBlocked' = 0
    /\ nError' = 0
    /\ UNCHANGED <<clock, user, todo, usersLeft, handlerVars, crashes, storeErrors, att, batt, hBlocked,
                   hError, crashedIter, cutByError>>

\* ------------------------------------------------------- crash and restart
\* the process dies at any point; main() starts again on the persisted tables
CrashRestart ==
    /\ UNCHANGED <<otherVars, lastText>>
    /\ crashes + storeErrors < MaxFaults
    /\ crashes' = crashes + 1
    /\ pc' = "sleep"
    /\ now' = 0
    /\ dueAtTick' = {}
    /\ rows' = {}
    /\ todo' = {}
    /\ txSent' = {}
    /\ cur' = NULL
    /\ usersLeft' = {}
    /\ total' = 0
    /\ txFinal' = FALSE
    /\ hpc' = "idle"
    /\ hId' = NULL
    /\ hUsers' = {}
    /\ hCount' = 0
    /\ idle' = FALSE
    /\ crashedIter' = IF pc = "iterate" THEN crashedIter \cup {cur} ELSE crashedIter
    /\ failedNow' = {}
    /\ nBlocked' = 0
    /\ nError' = 0
    /\ hBlocked' = 0
    /\ hError' = 0
    /\ UNCHANGED <<clock, dbVars, att, batt, storeErrors, cutByError>>

\* ------------------------------------------------- store errors in a sweep
\* a store operation raises: the exception leaves send_scheduled_broadcasts, the
\* "async with" block closes the session (uncommitted writes are dropped) and
\* scheduled_broadcast catches it
SweepAborted ==
    /\ UNCHANGED <<otherVars, lastText>>
    /\ crashes + storeErrors < MaxFaults
    /\ storeErrors' = storeErrors + 1
    /\ pc' = LoopAfterError
    /\ now' = 0
    /\ dueAtTick' = {}
    /\ rows' = {}
    /\ todo' = {}
    /\ txSent' = {}
    /\ cur' = NULL
    /\ usersLeft' = {}
    /\ total' = 0
    /\ txFinal' = FALSE
    /\ idle' = FALSE
    /\ failedNow' = {}
    /\ nBlocked' = 0
    /\ nError' = 0
    /\ UNCHANGED <<clock, user, handlerVars, crashes, batt, hBlocked, hError, crashedIter>>

\* the UPDATE message_schedule after an attempt raises (it is outside the try)
StoreErrorPersonal ==
    /\ pc = "personal"
    /\ todo # {}
    /\ \E id \in todo : att' = [att EXCEPT ![id] = @ + 1]
    /\ SweepAborted
    /\ UNCHANGED <<ms, bc, cutByError>>

\* query_broadcast, the UPDATE to 'sending' or its commit raises
StoreErrorSelect ==
    /\ pc = "personal"
    /\ PersonalLoopDone(todo)
    /\ SweepAborted
    /\ UNCHANGED <<ms, bc, att, cutByError>>

\* users_query raises, after the commit that follows the UPDATE to 'sending'
StoreErrorUsersQuery ==
    /\ pc = "personal"
    /\ PersonalLoopDone(todo)
    /\ \E j \in DueBroadcast(bc, now) :
        /\ bc' = TransitionSending(bc, j)
        /\ ms' = CommitSent(ms, txSent)
        /\ cutByError' = cutByError \cup {j}
    /\ SweepAborted
    /\ UNCHANGED att

\* the final UPDATE broadcast raises, or the commit at the end of the sweep
StoreErrorFinal ==
    /\ \/ pc = "iterate" /\ BroadcastLoopDone(usersLeft)
       \/ pc = "commit" /\ (rows # {} \/ cur # NULL)
    /\ cutByError' = IF cur # NULL THEN cutByError \cup {cur} ELSE cutByError
    /\ SweepAborted
    /\ UNCHANGED <<ms, bc, att>>

SchedulerNext ==
    \/ Tick
    \/ PersonalStep
    \/ SelectBroadcast
    \/ IterateStep
    \/ FinalUpdate
    \/ Commit

Next ==
    \/ ClockAdvance
    \/ AddMessageSchedule
    \/ CreateBroadcastTime
    \/ SendNowStep
    \/ SendNowFinish
    \/ Tick
    \/ PersonalStep
    \/ SelectBroadcast
    \/ IterateStep
    \/ FinalUpdate
    \/ Commit
    \/ CrashRestart
    \/ StoreErrorPersonal
    \/ StoreErrorSelect
    \/ StoreErrorUsersQuery
    \/ StoreErrorFinal

Spec == Init /\ [][Next]_vars

\* ------------------------------------------------------- get_current_stage
\* a handler (cmd_start, the menu handlers) calls get_current_stage at some instant
StageCall ==
    /\ \E t \in Instants :
        /\ stNow' = t
        /\ stStage' = get_current_stage(t)
    /\ stPrevNow' = stNow
    /\ stPrevStage' = stStage
    /\ UNCHANGED <<clock, dbVars, schedVars, handlerVars, crashes, storeErrors, histVars,
                   enrollVars, lastText, restVars>>

StageNext == StageCall

StageSpec == Init /\ [][StageNext]_vars

\* ---------------------------------------------- enrollment in the lead magnet
EnrollClock ==
    /\ eClock < MaxEnrollTime
    /\ eClock' = eClock + 1
    /\ UNCHANGED <<clock, dbVars, schedVars, handlerVars, crashes, storeErrors, histVars,
                   stageVars, ePc, eNow, eIdx, eRaised, eAnswer, eCount, eCreated, eFailed,
                   lastText, restVars>>

\* lead_magnet_from_menu: assign_user_to_lead_source and commit, then
\* schedule_lead_magnet_messages reads now and builds reminders
EnrollAssign ==
    /\ ePc = "idle"
    /\ eCount < MaxEnrollments
    /\ eCount' = eCount + 1
    /\ user' = assign_user_to_lead_source(user, Contact, LeadMagnetId)
    /\ contact' = UpdateLeadSource(contact, Contact, LeadMagnetId)
    /\ eNow' = eClock
    /\ eIdx' = 1
    /\ eCreated' = {}
    /\ eFailed' = FALSE
    /\ eRaised' = FALSE
    /\ ePc' = "schedule"
    /\ UNCHANGED <<clock, ms, bc, schedVars, handlerVars, crashes, storeErrors, histVars,
                   stageVars, eClock, eAnswer, lastText, dispatchVars, segmentVars,
                   op, sUid, sLabel, ret>>

\* one pass of "for scheduled_at, text_key in reminders" in which add_message_schedule
\* (add, commit, refresh) succeeds or the pair is skipped
EnrollAdd ==
    /\ ePc = "schedule"
    /\ eIdx <= Len(reminders(eNow))
    /\ IF StrictlyFuture(reminders(eNow)[eIdx].at, eNow)
       THEN /\ ms' = Append(ms, [user_id |-> Contact, send_time |-> reminders(eNow)[eIdx].at,
                                 sent |-> FALSE])
            /\ eCreated' = eCreated \cup {Len(ms) + 1}
       ELSE UNCHANGED <<ms, eCreated>>
    /\ eIdx' = eIdx + 1
    /\ UNCHANGED <<clock, user, bc, schedVars, handlerVars, crashes, storeErrors, histVars,
                   stageVars, eClock, ePc, eNow, eRaised, eAnswer, eCount, eFailed, lastText, restVars>>

\* add_message_schedule raises at its commit: "except Exception" of
\* schedule_lead_magnet_messages runs session.rollback(), which returns or raises
\* itself, and logs
EnrollAddFails ==
    /\ ePc = "schedule"
    /\ eIdx <= Len(reminders(eNow))
    /\ StrictlyFuture(reminders(eNow)[eIdx].at, eNow)
    /\ eFailed' = TRUE
    /\ \E rollbackRaises \in BOOLEAN : eRaised' = rollbackRaises
    /\ ePc' = "answer"
    /\ UNCHANGED <<clock, dbVars, schedVars, handlerVars, crashes, storeErrors, histVars,
                   stageVars, eClock, eNow, eIdx, eAnswer, eCount, eCreated, lastText, restVars>>

\* the loop has run out: session.commit() and the log line, then the return
EnrollCommit ==
    /\ ePc = "schedule"
    /\ eIdx > Len(reminders(eNow))
    /\ ePc' = "answer"
    /\ UNCHANGED <<clock, dbVars, schedVars, handlerVars, crashes, storeErrors, histVars,
                   stageVars, eClock, eNow, eIdx, eRaised, eAnswer, eCount, eCreated, eFailed,
                   lastText, restVars>>

\* lead_magnet_from_menu: welcome_text is replaced in "except Exception" only
EnrollAnswer ==
    /\ ePc = "answer"
    /\ eAnswer' = IF eRaised THEN "failure" ELSE "welcome"
    /\ ePc' = "idle"
    /\ UNCHANGED <<clock, dbVars, schedVars, handlerVars, crashes, storeErrors, histVars,
                   stageVars, eClock, eNow, eIdx, eRaised, eCount, eCreated, eFailed, lastText, restVars>>

\* create_broadcast_time with the text of the administrator's message
CreateBroadcastText ==
    \E text \in Texts, l \in Targets :
        /\ lastText' = text
        /\ create_broadcast_time(ScheduledAt(text), l)

HandlerNext ==
    \/ EnrollClock
    \/ EnrollAssign
    \/ EnrollAdd
    \/ EnrollAddFails
    \/ EnrollCommit
    \/ EnrollAnswer

HandlerSpec == Init /\ [][HandlerNext]_vars

\* the administrator creates broadcasts; jobs without due time are sent at once
CreateNext ==
    \/ CreateBroadcastText
    \/ SendNowStep
    \/ SendNowFinish

CreateSpec == Init /\ [][CreateNext]_vars

\* ------------------------------------- sweeps over work with several due times
\* entries and jobs get due times that differ, and the scheduler runs its ticks
OrderTimes == 1 .. MaxOrderTime

OrderClockAdvance ==
    /\ clock < MaxOrderTime
    /\ clock' = clock + 1
    /\ UNCHANGED <<dbVars, schedVars, handlerVars, crashes, storeErrors, histVars,
                   otherVars, lastText>>

OrderAddMessageSchedule == \E t \in OrderTimes : add_message_schedule(Contact, t)

OrderCreateBroadcast ==
    \E s \in OrderTimes : create_broadcast_time(s, NULL) /\ UNCHANGED lastText

OrderNext ==
    \/ OrderClockAdvance
    \/ OrderAddMessageSchedule
    \/ OrderCreateBroadcast
    \/ Tick
    \/ PersonalStep
    \/ SelectBroadcast
    \/ IterateStep
    \/ FinalUpdate
    \/ Commit

OrderSpec == Init /\ [][OrderNext]_vars

\* scheduled_broadcast is a "while True" loop on the event loop: a sweep that can
\* take its next step does take it
FairSpec == Init /\ [][Next]_vars /\ WF_vars(SchedulerNext)

\* ------------------------------------------- shutdown of the scheduler task
\* main() creates the scheduler task and never joins it: when polling stops,
\* asyncio.run cancels the task at the await it is suspended in. CancelledError is
\* not an Exception, so neither "except Exception" catches it; the session
\* context manager closes the session and the open transaction is discarded.
\* In the personal loop the await is the delivery call of some row (the attempt
\* may have gone out) or the UPDATE that follows it.
Cancelled ==
    /\ pc # "stopped"
    /\ pc' = "stopped"
    /\ IF pc = "personal" /\ todo # {}
       THEN \E id \in todo, delivered \in BOOLEAN :
                att' = IF delivered THEN [att EXCEPT ![id] = @ + 1] ELSE att
       ELSE att' = att
    /\ IF pc = "iterate" /\ usersLeft # {}
       THEN \E u \in usersLeft, delivered \in BOOLEAN :
                batt' = IF delivered THEN [batt EXCEPT ![cur][u] = @ + 1] ELSE batt
       ELSE batt' = batt
    /\ txSent' = {}
    /\ txFinal' = FALSE
    /\ UNCHANGED <<clock, dbVars, now, rows, todo, cur, usersLeft, total, handlerVars,
                   crashes, storeErrors, failedNow, nBlocked, nError, hBlocked, hError,
                   dueAtTick, idle, crashedIter, cutByError, otherVars, lastText>>

ShutdownNext ==
    \/ ClockAdvance
    \/ AddMessageSchedule
    \/ OrderCreateBroadcast
    \/ Tick
    \/ PersonalStep
    \/ SelectBroadcast
    \/ IterateStep
    \/ FinalUpdate
    \/ Commit
    \/ Cancelled

ShutdownSpec == Init /\ [][ShutdownNext]_vars

\* ------------------------------------------------- a delivery call that hangs
\* "await bot.send_message(...)" and "await bot.send_document(...)" are awaited
\* as they are, with no timeout argument and no asyncio.wait_for around them: a
\* call that does not return leaves the sweep, and the loop around it, suspended
DeliveryHangs ==
    /\ \/ pc = "personal" /\ todo # {}
       \/ pc = "iterate" /\ usersLeft # {}
    /\ pc' = "hung"
    /\ UNCHANGED <<clock, dbVars, now, rows, todo, txSent, cur, usersLeft, total, txFinal,
                   handlerVars, crashes, storeErrors, histVars, otherVars, lastText>>

HangNext ==
    \/ ClockAdvance
    \/ AddMessageSchedule
    \/ OrderCreateBroadcast
    \/ Tick
    \/ PersonalStep
    \/ SelectBroadcast
    \/ IterateStep
    \/ FinalUpdate
    \/ Commit
    \/ DeliveryHangs

HangSpec == Init /\ [][HangNext]_vars /\ WF_vars(SchedulerNext)

\* ------------------------------------------------- deletion of a segment
\* delete_lead_source_exec: the DELETE and its commit; the store applies both
\* foreign keys' SET NULL in the same statement
DeleteLeadSource ==
    /\ \E lead_id \in DOMAIN ls :
        /\ ls' = delete_lead_source(ls, lead_id)
        /\ user' = SetNullUsers(user, lead_id)
        /\ contact' = SetNullContacts(contact, lead_id)
        /\ bc' = SetNullBroadcasts(bc, lead_id)
        /\ orphaned' = orphaned \cup
                {j \in DOMAIN bc : /\ bc[j].target_lead_id = lead_id
                                   /\ bc[j].status = "pending"
                                   /\ ~(hpc = "send_now" /\ hId = j)}
    /\ op' = "delete_lead_source"
    /\ UNCHANGED <<clock, ms, schedVars, handlerVars, crashes, storeErrors, histVars,
                   stageVars, enrollVars, lastText, dispatchVars, sUid, sLabel, ret>>

\* create_broadcast_time with the target the administrator picked among the
\* stored segments, or with none
SegmentCreateBroadcast ==
    \E s \in {NULL} \cup DueTimes, l \in {NULL} \cup DOMAIN ls :
        create_broadcast_time(s, l) /\ UNCHANGED lastText

SegmentNext ==
    \/ ClockAdvance
    \/ AddMessageSchedule
    \/ SegmentCreateBroadcast
    \/ SendNowStep
    \/ SendNowFinish
    \/ DeleteLeadSource
    \/ Tick
    \/ PersonalStep
    \/ SelectBroadcast
    \/ IterateStep
    \/ FinalUpdate
    \/ Commit

SegmentSpec == Init /\ [][SegmentNext]_vars

\* ------------------------------------------- registration and the start command
StartUsers == 1 .. MaxContacts

\* labels a start command arrives with: none, the lead magnet in two spellings,
\* two funnels whose segment is not stored, a stored segment that is no funnel,
\* and a word that is neither
Labels == {"", "lead_magnet", "Lead_Magnet", "webinar", "challenge", "promo", "sale"}

\* a call of add_user with some external id and segment
AddUser ==
    /\ \E user_id \in StartUsers, lead_source_id \in {NULL} \cup DOMAIN ls :
        /\ contact' = add_user(contact, user_id, lead_source_id)
        /\ ret' = Returned(contact, user_id)
        /\ sUid' = user_id
    /\ op' = "add_user"
    /\ user' = ByExternalId(contact')
    /\ UNCHANGED <<clock, ms, bc, schedVars, handlerVars, crashes, storeErrors, histVars,
                   stageVars, enrollVars, lastText, dispatchVars, segmentVars, sLabel>>

\* cmd_start and _handle_deep_link_flow. The store of this model holds no segment
\* named webinar or challenge, so the two funnels of line 141 and line 145 are
\* never started.
CmdStart ==
    /\ \E user_id \in StartUsers, label \in Labels :
        LET lead_source_name == DeepLink(label)
            registered == add_user(contact, user_id, NULL)
            lead_source == get_lead_source_by_name(ls, lead_source_name)
            funnel == lead_source_name # "None" /\ lead_source # NULL
        IN  /\ sUid' = user_id
            /\ sLabel' = label
            /\ ret' = Returned(contact, user_id)
            /\ contact' = IF funnel THEN UpdateLeadSource(registered, user_id, lead_source)
                          ELSE registered
            /\ IF funnel /\ lead_source_name = "lead_magnet"
               THEN /\ Len(ms) + 2 <= MaxStartEntries
                    /\ ms' = ms \o LeadMagnetEntries(Returned(contact, user_id), clock)
               ELSE ms' = ms
    /\ op' = "start"
    /\ user' = ByExternalId(contact')
    /\ UNCHANGED <<clock, bc, schedVars, handlerVars, crashes, storeErrors, histVars,
                   stageVars, enrollVars, lastText, dispatchVars, segmentVars>>

StartNext ==
    \/ AddUser
    \/ CmdStart
    \/ DeleteLeadSource

StartSpec == Init /\ [][StartNext]_vars

\* ------------------------------------------------ the delivery primitives
\* one pass of the recipient loop of send_scheduled_broadcasts for a job of a kind
DispatchScheduled ==
    /\ Len(dLog) < MaxCalls
    /\ \E kind \in Kinds :
        dLog' = Append(dLog, [path |-> "scheduled", kind |-> kind, payload |-> "content",
                              call |-> SchedulerCall(FileIdOf(kind), kind)])
    /\ UNCHANGED <<mainVars, stageVars, enrollVars, lastText, segmentVars, startVars>>

\* one pass of the recipient loop of send_broadcast_now for a job of a kind
DispatchImmediate ==
    /\ Len(dLog) < MaxCalls
    /\ \E kind \in Kinds :
        dLog' = Append(dLog, [path |-> "immediate", kind |-> kind, payload |-> "content",
                              call |-> ImmediateCall(kind)])
    /\ UNCHANGED <<mainVars, stageVars, enrollVars, lastText, segmentVars, startVars>>

\* one pass of the personal loop for an entry add_message_schedule stored for a kind
DispatchPersonal ==
    /\ Len(dLog) < MaxCalls
    /\ \E kind \in Kinds :
        dLog' = Append(dLog, [path |-> "personal", kind |-> kind,
                              payload |-> PersonalPayload(FileIdOf(kind), kind),
                              call |-> PersonalCall(PersonalPayload(FileIdOf(kind), kind))])
    /\ UNCHANGED <<mainVars, stageVars, enrollVars, lastText, segmentVars, startVars>>

DispatchNext ==
    \/ DispatchScheduled
    \/ DispatchImmediate
    \/ DispatchPersonal

DispatchSpec == Init /\ [][DispatchNext]_vars

TypeOK ==
    /\ clock \in Times
    /\ pc \in {"sleep", "personal", "iterate", "commit", "stopped", "hung"}
    /\ hpc \in {"idle", "send_now"}
    /\ crashes \in 0 .. MaxFaults
    /\ storeErrors \in 0 .. MaxFaults

\* ------------------------------------------------------------------ claims
Entries == 1 .. MaxEntries
Jobs == 1 .. MaxJobs

\* the step that ends a tick of the scheduler: the commit at the end of the sweep
TickEnds == pc = "commit" /\ pc' = "sleep" /\ crashes' = crashes /\ storeErrors' = storeErrors

\* contacts that received an attempt of job j
Attempted(j) == {u \in Users : batt[j][u] > 0}

\* C1: in a run without a crash or store error, an entry that is past due and unsent when a tick
\* starts has received its attempt and is persisted with sent = true when that tick
\* ends, and no entry is ever attempted more than once, however many ticks ran
\* before or after
C1_DueEntrySweptOnce ==
    [][(crashes' = 0 /\ storeErrors' = 0) =>
        /\ \A e \in Entries : att'[e] <= 1
        /\ \A e \in DOMAIN ms : ms'[e].sent => att'[e] = 1
        /\ TickEnds => \A e \in dueAtTick : ms'[e].sent /\ att'[e] = 1]_vars

C1_Witness ==
    /\ crashes = 0
    /\ storeErrors = 0
    /\ pc = "sleep"
    /\ \E e \in DOMAIN ms : ms[e].sent /\ att[e] = 1 /\ ms[e].send_time <= clock

\* C2: the scheduler's broadcast sweep attempts a job with a segment filter only to
\* contacts of that segment, and a job without filter to every contact
C2_OnlySegmentRecipients ==
    [][/\ \A u \in Users :
            (/\ pc = "iterate"
             /\ cur # NULL
             /\ batt'[cur][u] > batt[cur][u]
             /\ bc[cur].target_lead_id # NULL) => user[u] = bc[cur].target_lead_id
       /\ (/\ pc = "iterate"
           /\ pc' = "commit"
           /\ bc[cur].target_lead_id = NULL) => \A u \in DOMAIN user : batt'[cur][u] >= 1]_vars

\* C3: when a broadcast loop ends in which every failure was "blocked", the one
\* final write turns the job from its creation values to status = sent,
\* is_sent = true and sent_count = (contacts attempted) - (blocked contacts)
C3_SentCountIsSuccesses ==
    [][/\ (TickEnds /\ cur # NULL /\ txFinal /\ nError = 0) =>
            /\ bc[cur].status = "sending" /\ bc[cur].sent_count = 0 /\ ~bc[cur].is_sent
            /\ bc'[cur].status = "sent" /\ bc'[cur].is_sent
            /\ bc'[cur].sent_count = Cardinality(Attempted(cur)) - nBlocked
       /\ (hpc = "send_now" /\ hpc' = "idle" /\ crashes' = crashes /\ hError = 0) =>
            /\ bc[hId].status = "pending" /\ bc[hId].sent_count = 0 /\ ~bc[hId].is_sent
            /\ bc'[hId].status = "sent" /\ bc'[hId].is_sent
            /\ bc'[hId].sent_count = Cardinality(Attempted(hId)) - hBlocked]_vars

C3_Witness ==
    \E j \in DOMAIN bc :
        /\ bc[j].status = "sent" /\ bc[j].is_sent
        /\ bc[j].scheduled_at # NULL
        /\ Attempted(j) = Users
        /\ bc[j].sent_count = 1

\* C4: in a run without a crash or store error, an entry whose attempt failed (blocked or any other
\* error) is marked sent in the transaction by the step that attempted it, is
\* persisted with sent = true when the tick ends, and has one attempt only
C4_FailedEntryMarkedSent ==
    [][(crashes' = 0 /\ storeErrors' = 0) =>
        /\ \A e \in failedNow' : (e \in txSent' \/ ms'[e].sent) /\ att'[e] = 1
        /\ \A e \in Entries : att'[e] > att[e] => e \in txSent'
        /\ TickEnds => \A e \in failedNow : ms'[e].sent]_vars

C4_Witness ==
    /\ crashes = 0
    /\ storeErrors = 0
    /\ \E e \in failedNow : ms[e].sent /\ att[e] = 1

\* C5: a step of a tick that has found no due personal entry and no due broadcast
\* job makes no delivery attempt and changes no entry and no job
C5_IdleTickNoChange ==
    [][(/\ pc' # pc
        /\ crashes' = crashes
        /\ IF pc = "commit" THEN idle ELSE idle') =>
            /\ ms' = ms /\ bc' = bc /\ att' = att /\ batt' = batt
            /\ rows' = {} /\ cur' = NULL /\ txSent' = {}]_vars

C5_Witness ==
    /\ pc = "commit"
    /\ idle
    /\ \E e \in DOMAIN ms : ms[e].sent
    /\ \E j \in DOMAIN bc : bc[j].status = "sent"

\* the recipient set the claims give a job: its segment, or every contact without filter
ClaimRecipients(j) ==
    IF bc[j].target_lead_id = NULL THEN DOMAIN user
    ELSE {u \in DOMAIN user : user[u] = bc[j].target_lead_id}

EntryDue(e) == e \in DOMAIN ms /\ ms[e].send_time <= clock /\ ~ms[e].sent

JobDue(j) == j \in DOMAIN bc /\ j \in PastDuePending(clock)

C7_AtMostOneDuplicatePerCrash ==
    /\ \A e \in Entries : att[e] <= 1 + crashes + storeErrors
    /\ \A j \in Jobs : \A u \in Users : batt[j][u] <= 1 + crashes

C7_Witness ==
    /\ crashes = 1
    /\ storeErrors = 0
    /\ \E e \in DOMAIN ms : att[e] = 2

\* C8: a job whose recipient iteration was cut by a crash is persisted with
\* status = sending, is_sent = false and sent_count = 0, and stays so
C8_CrashedJobStuckSending ==
    \A j \in crashedIter :
        bc[j].status = "sending" /\ ~bc[j].is_sent /\ bc[j].sent_count = 0

C8_Witness ==
    /\ pc = "commit"
    /\ \E j \in crashedIter : bc[j].scheduled_at <= now /\ bc[j].status = "sending"

\* C9: a persisted sent flag that is true stays true, and no step makes a delivery
\* attempt for an entry whose persisted sent flag is true
C9_SentNeverReprocessed ==
    [][\A e \in DOMAIN ms : ms[e].sent => (ms'[e].sent /\ att'[e] = att[e])]_vars

C9_Witness ==
    /\ crashes = 1
    /\ pc = "commit"
    /\ \E e \in DOMAIN ms : ms[e].sent /\ ms[e].send_time <= now /\ e \notin rows

\* C10: the status of a job only moves forward: pending, sending, sent
Rank(st) == IF st = "sent" THEN 2 ELSE IF st = "sending" THEN 1 ELSE 0

C10_StatusMonotonic ==
    [][\A j \in DOMAIN bc : Rank(bc'[j].status) >= Rank(bc[j].status)]_vars

C10_Witness ==
    /\ pc = "commit"
    /\ \E j \in DOMAIN bc : bc[j].status = "sent"
    /\ \E j \in crashedIter : bc[j].status = "sending" /\ bc[j].scheduled_at <= now

\* C11: the persisted sent_count of a job never decreases, changes only in the
\* final write of the dispatcher that is sending the job (the end of the scheduler's
\* sweep, or the end of the immediate send) while the job is not yet sent, and does
\* not change once the job's status is sent
C11_SentCountWrittenOnce ==
    [][\A j \in DOMAIN bc :
        /\ bc'[j].sent_count >= bc[j].sent_count
        /\ bc'[j].sent_count # bc[j].sent_count =>
            /\ bc[j].status # "sent"
            /\ \/ pc = "commit" /\ cur = j /\ txFinal /\ pc' = "sleep"
               \/ hpc = "send_now" /\ hId = j /\ hpc' = "idle"
        /\ bc[j].status = "sent" => bc'[j].sent_count = bc[j].sent_count]_vars

C11_Witness ==
    /\ pc = "commit"
    /\ txFinal
    /\ total = 1
    /\ \E j \in DOMAIN bc : j # cur /\ bc[j].status = "sent" /\ bc[j].sent_count = 2

\* C12: at most one job is persisted with status = sending, in every reachable
\* state, crashes and restarts included
C12_AtMostOneSending ==
    Cardinality({j \in DOMAIN bc : bc[j].status = "sending"}) <= 1

\* C13: while the job of a tick is being iterated or finished, every personal entry
\* that was due when the tick started has already had its attempt in this tick
C13_PersonalBeforeBroadcast ==
    (pc = "iterate" \/ (pc = "commit" /\ cur # NULL)) =>
        /\ todo = {}
        /\ \A e \in dueAtTick : e \in rows /\ att[e] >= 1

C13_Witness ==
    /\ pc = "iterate"
    /\ Cardinality(dueAtTick) = 2
    /\ usersLeft # {}
    /\ \E u \in Users : batt[cur][u] >= 1

\* C14: the job selected by a tick is persisted with status = sending from the
\* start of its recipient iteration, so every scheduled job that has received an
\* attempt, and every job whose iteration a crash cut, is sending or sent, not pending
C14_SendingCommittedBeforeAttempts ==
    /\ pc = "iterate" => bc[cur].status = "sending"
    /\ \A j \in DOMAIN bc : \A u \in Users :
            (bc[j].scheduled_at # NULL /\ batt[j][u] >= 1) => bc[j].status \in {"sending", "sent"}
    /\ \A j \in crashedIter : bc[j].status # "pending"

C14_Witness ==
    /\ pc = "sleep"
    /\ \E j \in crashedIter :
        /\ Attempted(j) # {}
        /\ Attempted(j) # Users
        /\ bc[j].status = "sending"

\* the recipient set a sweep resolves for job j
Resolved(j) ==
    IF bc[j].scheduled_at = NULL THEN ImmediateRecipients(user, bc[j])
    ELSE SchedulerRecipients(user, bc[j])

\* C15: a job that carries any part of the final update (status = sent, is_sent,
\* a sent_count), persisted or written in the open transaction, has had an attempt
\* for every recipient of the set its sweep resolved
C15_FinalUpdateAfterAllAttempts ==
    \A j \in DOMAIN bc :
        (bc[j].status = "sent" \/ bc[j].is_sent \/ bc[j].sent_count > 0 \/ (txFinal /\ cur = j))
            => Resolved(j) \subseteq Attempted(j)

C15_Witness ==
    /\ pc = "commit"
    /\ txFinal
    /\ Attempted(cur) = Users
    /\ \E j \in DOMAIN bc :
        /\ bc[j].scheduled_at = NULL
        /\ bc[j].target_lead_id = 1
        /\ bc[j].status = "sent"
        /\ Attempted(j) = {1}

\* C16: a failed delivery, blocked or any other error, leaves the sweep in its
\* loop; a sweep in which deliveries failed still ends with all its entries marked
\* and persisted as sent, all recipients of its job attempted and the job sent
C16_FailureNeverStopsSweep ==
    [][/\ failedNow' # failedNow /\ failedNow' # {} => pc = "personal" /\ pc' = "personal"
       /\ nBlocked' + nError' > nBlocked + nError => pc = "iterate" /\ pc' = "iterate"
       /\ (TickEnds /\ failedNow # {}) =>
            \A e \in rows : att[e] >= 1 /\ (e \in txSent \/ ms[e].sent) /\ ms'[e].sent
       /\ (TickEnds /\ cur # NULL /\ nBlocked + nError > 0) =>
            /\ Resolved(cur) \subseteq Attempted(cur)
            /\ bc'[cur].status = "sent"]_vars

C16_Witness ==
    /\ pc = "commit"
    /\ txFinal
    /\ Cardinality(rows) = 2
    /\ failedNow # {}
    /\ nError >= 1
    /\ Attempted(cur) = Users

\* C20: a tick without a crash or store error takes at most one job: when due jobs
\* exist the select step turns one of them to sending and leaves every other due
\* job pending and unchanged, no later step of the tick changes a job other than
\* the selected one, and the tick ends with every due personal entry marked sent
C20_OneJobPerTick ==
    [][(schedVars' # schedVars /\ crashes' = crashes /\ storeErrors' = storeErrors) =>
        /\ \A j \in DOMAIN bc : bc'[j] # bc[j] => (j = cur \/ j = cur')
        /\ cur # NULL => cur' \in {cur, NULL}
        /\ (pc = "personal" /\ pc' # "personal") =>
            IF PastDuePending(now) = {}
            THEN cur' = NULL /\ bc' = bc
            ELSE /\ cur' \in PastDuePending(now)
                 /\ bc'[cur'].status = "sending"
                 /\ \A j \in PastDuePending(now) \ {cur'} :
                        bc'[j] = bc[j] /\ bc'[j].status = "pending"
        /\ TickEnds => \A e \in dueAtTick : ms'[e].sent]_vars

C20_Witness ==
    /\ pc = "iterate"
    /\ dueAtTick # {}
    /\ \E j \in PastDuePending(now) : j # cur

\* the step in which a store operation of the running sweep raises
StoreErrorStep == storeErrors' > storeErrors

\* the failing store operation belongs to the broadcast sweep: query_broadcast and
\* everything after it, up to the commit of a tick that has selected a job
InBroadcastSweep ==
    \/ pc = "personal" /\ todo = {}
    \/ pc = "iterate"
    \/ pc = "commit" /\ cur # NULL

\* C17: when a store operation of a sweep raises, the persisted entries of the
\* personal sweep are unsent as before the sweep, and the job of the broadcast
\* sweep and every job that was due are persisted as before the sweep (pending,
\* is_sent = false, sent_count = 0), so that the next tick selects them again
C17_StoreErrorLeavesSweepUnchanged ==
    [][StoreErrorStep =>
        /\ ~InBroadcastSweep => \A e \in rows : ~ms'[e].sent
        /\ InBroadcastSweep =>
            \A j \in DOMAIN bc : (j = cur \/ j \in PastDuePending(now)) =>
                bc'[j].status = "pending" /\ ~bc'[j].is_sent /\ bc'[j].sent_count = 0]_vars

\* C18: when a store operation of the broadcast sweep raises, every personal entry
\* the same tick has attempted is persisted with sent = true
C18_PersonalMarksSurviveBroadcastError ==
    [][(StoreErrorStep /\ InBroadcastSweep) => \A e \in rows : ms'[e].sent]_vars

\* C19: the scheduler loop outlives every error a sweep raises: ticks start again
\* and again, and after an aborted sweep a later tick starts
C19_LoopSurvivesSweepError ==
    /\ []<>(pc = "personal")
    /\ (storeErrors > 0 /\ pc = "sleep") ~> (pc = "personal")

C19_Witness ==
    /\ storeErrors = 1
    /\ pc = "personal"
    /\ rows # {}

\* the three windows of the stage resolver, as half-open intervals of days
Windows ==
    {[stage |-> "stage1", start |-> Stage1Start, end |-> Stage1End],
     [stage |-> "stage2", start |-> Stage2Start, end |-> Stage2End],
     [stage |-> "stage3", start |-> Stage3Start, end |-> Stage3End]}

InWindow(t, w) == w.start <= t /\ t < w.end

\* C21: an instant lies in at most one window and a call returns one value; two
\* calls at instants of the same window return the same stage; the three windows
\* are pairwise disjoint
C21_OneStagePerWindow ==
    /\ \A t \in {stNow, stPrevNow} : Cardinality({w \in Windows : InWindow(t, w)}) <= 1
    /\ stStage \in {"stage1", "stage2", "stage3", "None"}
    /\ \A w \in Windows :
            (InWindow(stNow, w) /\ InWindow(stPrevNow, w)) => stStage = stPrevStage
    /\ \A w1, w2 \in Windows : w1 # w2 => (w1.end <= w2.start \/ w2.end <= w1.start)

C21_Witness ==
    /\ stNow # stPrevNow
    /\ Stage3Start <= stNow /\ stNow < Stage3End
    /\ Stage3Start <= stPrevNow /\ stPrevNow < Stage3End
    /\ stStage = "stage3"
    /\ stPrevStage = "stage3"

\* C22: a call at the start of a window returns that window's stage, a call at the
\* end of a window does not, and a call before the first window, between stage2
\* and stage3, or at or after the end of stage3 returns None
C22_HalfOpenWindows ==
    /\ \A w \in Windows : stNow = w.start => stStage = w.stage
    /\ \A w \in Windows : stNow = w.end => stStage # w.stage
    /\ (\/ stNow < Stage1Start
        \/ Stage2End <= stNow /\ stNow < Stage3Start
        \/ stNow >= Stage3End) => stStage = "None"
    /\ stStage # "None" => \E w \in Windows : w.stage = stStage /\ InWindow(stNow, w)

C22_Witness ==
    /\ stNow = Stage2End
    /\ stStage = "None"
    /\ stPrevNow = Stage3Start
    /\ stPrevStage = "stage3"

\* due times of the entries the running enrollment has stored
CreatedTimes == {ms[i].send_time : i \in eCreated}

\* schedule_lead_magnet_messages has returned and no add_message_schedule raised
EnrollReturned == ePc = "answer" /\ ~eFailed

C24_OneEntryPerFuturePair ==
    \A i \in 1 .. Len(reminders(eNow)) :
        (ePc # "idle" /\ i < eIdx) =>
            Cardinality({e \in eCreated : ms[e].send_time = reminders(eNow)[i].at})
                = IF reminders(eNow)[i].at > eNow THEN 1 ELSE 0

C24_Witness ==
    /\ ePc = "answer"
    /\ eIdx = 3
    /\ eCount = 2
    /\ Cardinality(eCreated) = 2

\* C25: after an enrollment in which an add_message_schedule raised, the store
\* holds none of the entries of that enrollment
C25_FailedEnrollmentStoresNothing ==
    (ePc = "answer" /\ eFailed) => eCreated = {}

\* C26: after an enrollment in which an add_message_schedule raised, the handler
\* has seen the exception and has answered the contact with the failure text
C26_FailedEnrollmentAnswersFailure ==
    /\ (ePc = "answer" /\ eFailed) => eRaised
    /\ (ePc = "idle" /\ eFailed) => eAnswer = "failure"

Malformed(text) == text.layout # "blank" /\ strptime(text) = NULL

\* C28: no job is added to the store by a create_broadcast_time whose due-time
\* text is malformed
C28_MalformedTimeRejected ==
    [][Len(bc') > Len(bc) => ~Malformed(lastText')]_vars

\* C29: in a personal sweep an entry receives its attempt only when no entry with
\* an earlier due time is still waiting for its attempt in the same sweep
C29_PersonalEarliestFirst ==
    [][\A a, b \in todo :
        (att'[b] > att[b] /\ a # b) => ~(ms[a].send_time < ms[b].send_time)]_vars

\* C30: the job a tick selects has the earliest due time among the due jobs
C30_EarliestDueJobSelected ==
    [][(pc = "personal" /\ pc' = "iterate") =>
        \A j \in PastDuePending(now) : bc[cur'].scheduled_at <= bc[j].scheduled_at]_vars

\* the scheduler's sweep is inside its iteration over the recipients of a job
SchedulerIterating == pc = "iterate"

\* the administrator handler is inside send_broadcast_now's recipient loop
HandlerIterating == hpc = "send_now"

\* C31: at most one iteration over broadcast recipients is in progress at a
\* time: the scheduler's sweep is never inside its recipient loop while the
\* administrator's immediate send is inside its own
C31_OneBroadcastIterationAtATime ==
    ~(SchedulerIterating /\ HandlerIterating)

\* C35: every stored job has is_sent = true exactly when its status is 'sent'
C35_IsSentIffStatusSent ==
    \A j \in DOMAIN bc : bc[j].is_sent <=> bc[j].status = "sent"

C35_Witness ==
    /\ Len(bc) = 2
    /\ crashes = 1
    /\ \E j \in DOMAIN bc : bc[j].status = "sending" /\ ~bc[j].is_sent
    /\ \E j \in DOMAIN bc : bc[j].status = "sent" /\ bc[j].is_sent /\ bc[j].scheduled_at = NULL

\* C36: no job receives more than one delivery attempt to the same contact,
\* crashes and aborted sweeps included, and the job a sweep is working on was
\* not already 'sent'
C36_AtMostOneAttemptPerJobAndContact ==
    /\ \A j \in 1 .. MaxJobs, u \in Users : batt[j][u] <= 1
    /\ cur # NULL => bc[cur].status = "sending"

C36_Witness ==
    /\ crashes = 1
    /\ pc = "commit"
    /\ cur = NULL
    /\ \E j \in DOMAIN bc :
        /\ bc[j].status = "sending"
        /\ SqlLe(bc[j].scheduled_at, now)
        /\ batt[j][1] = 1
        /\ batt[j][2] = 0

\* C37: the job of a scheduler sweep always has a due time, and a job stored
\* without a due time receives at most one attempt per recipient of its
\* immediate send and none to any other contact
C37_NullDueTimeOnlyImmediate ==
    /\ cur # NULL => bc[cur].scheduled_at # NULL
    /\ \A j \in DOMAIN bc : bc[j].scheduled_at = NULL =>
        \A u \in Users :
            /\ batt[j][u] <= 1
            /\ batt[j][u] = 1 => u \in ImmediateRecipients(user, bc[j])

C37_Witness ==
    /\ HandlerIterating
    /\ bc[hId].scheduled_at = NULL
    /\ bc[hId].status = "pending"
    /\ hUsers # {}
    /\ pc = "commit"
    /\ cur = NULL
    /\ now = MaxTime

\* the delivery primitive that matches a payload kind
MatchingCall(kind) ==
    CASE kind = "text" -> "send_message"
      [] kind = "image" -> "send_photo"
      [] kind = "file" -> "send_document"
      [] kind = "video" -> "send_video"

\* C32: every delivery call, for a recipient of a broadcast job and for a
\* personal entry, uses the primitive that matches the kind of its payload
C32_CallMatchesPayloadKind ==
    \A i \in DOMAIN dLog : dLog[i].call = MatchingCall(dLog[i].kind)

\* C33: when the scheduler loop stops on shutdown, every entry that received a
\* delivery attempt is persisted with sent = true and every job whose recipients
\* received attempts is persisted with status 'sent': no recipient is left
\* between its attempt and its bookkeeping
C33_ShutdownFinishesCurrentRecipient ==
    [][(pc # "stopped" /\ pc' = "stopped") =>
        /\ \A e \in DOMAIN ms : att'[e] > 0 => ms'[e].sent
        /\ \A j \in DOMAIN bc : Attempted(j)' # {} => bc'[j].status = "sent"]_vars

\* C34: a sweep suspended in a delivery call goes on, and a later tick starts
C34_HungCallDoesNotBlockLoop ==
    /\ (pc = "hung") ~> (pc = "personal")
    /\ []<>(pc = "personal")

C39_AddUserIdempotent ==
    [][/\ \A u \in StartUsers : Cardinality(RowsOf(contact', u)) <= 1
       /\ (op' = "add_user" /\ RowsOf(contact, sUid') # {}) =>
            /\ contact' = contact
            /\ ret' \in RowsOf(contact, sUid')
       /\ (op' = "add_user" /\ RowsOf(contact, sUid') = {}) =>
            /\ Len(contact') = Len(contact) + 1
            /\ RowsOf(contact', sUid') = {ret'}
            /\ \A i \in DOMAIN contact : contact'[i] = contact[i]]_vars

C39_Witness ==
    /\ op = "add_user"
    /\ Len(contact) = MaxContacts
    /\ ret = 1
    /\ sUid = 1
    /\ contact[1].lead_source_id = 1
    /\ contact[3].lead_source_id = 2

\* the label of a start command is no funnel, or names no stored segment
Rejected(label, lstbl) ==
    \/ Lower(label) \notin ValidSources
    \/ get_lead_source_by_name(lstbl, Lower(label)) = NULL

\* C40: a start command whose label is not webinar, lead_magnet or challenge, or
\* names no stored segment, changes the segment of no contact and stores no
\* entry; it leaves the store as the same start command without label does
C40_UnknownLabelChangesNothing ==
    [][(op' = "start" /\ Rejected(sLabel', ls)) =>
        /\ \A i \in DOMAIN contact : contact'[i] = contact[i]
        /\ ms' = ms
        /\ contact' = add_user(contact, sUid', NULL)
        /\ \A i \in DOMAIN contact' \ DOMAIN contact : contact'[i].lead_source_id = NULL]_vars

C40_Witness ==
    /\ op = "start"
    /\ sLabel = "promo"
    /\ sUid = 3
    /\ Len(contact) = 3
    /\ contact[3].lead_source_id = NULL
    /\ \E l \in DOMAIN ls : ls[l] = "promo"
    /\ Len(ms) = 2
====
